---- MODULE Spec2Model ----
(***************************************************************************)
(* Model of zerver/lib/bugdown/api_arguments_table_generator.py:           *)
(* APIArgumentsTablePreprocessor.run (the directive scanner) and           *)
(* APIArgumentsTablePreprocessor.render_table (the table renderer).        *)
(*                                                                         *)
(* A text is a sequence of tokens.  The tokens the pattern REGEXP reads    *)
(* are kept apart: "{", "|", "}", the word G (generate_api_arguments_table)*)
(* and the two white-space tokens " " and NL (a line break).  Every other  *)
(* token stands for a run of one or more ordinary characters (a word, a    *)
(* file name, an HTML tag).                                                *)
(***************************************************************************)
EXTENDS Integers, Sequences, FiniteSets, TLC

VARIABLES
    lines,      \* run: the line sequence under transformation
    pc,         \* "scan", "done" (run); "render", "rendered" (render_table alone)
    input,      \* the lines run was called with
    attempts,   \* the requests resolved so far, one for each pass through the try statement
    diags,      \* the warnings printed so far
    last,       \* the last outer iteration: its kind, its loc and the lines before it
    iter,       \* the outer iterations made by this call of run
    reintro,    \* a table spliced by this call held a line that matches REGEXP
    selfloop,   \* a table spliced by this call brought back its own directive
    arguments,  \* the argument list last handed to render_table
    text,       \* the table last returned by render_table
    raised      \* the exception raised by the last pass through the try statement, "" if none

vars == <<lines, pc, input, attempts, diags, last, iter, reintro, selfloop,
          arguments, text, raised>>

(***************************************************************************)
(* Bounds of the model.                                                    *)
(***************************************************************************)
MaxLines == 2
MaxArgs == 2
MaxIter == 3

(***************************************************************************)
(* Tokens.                                                                 *)
(***************************************************************************)
NL == "NL"
SP == " "
G == "generate_api_arguments_table"
\* the backquote that opens and closes a code span
BQ == "BQ"

Min(S) == CHOOSE x \in S : \A y \in S : x <= y
Max(S) == CHOOSE x \in S : \A y \in S : x >= y

RECURSIVE Concat(_)
Concat(ss) == IF ss = <<>> THEN <<>> ELSE Head(ss) \o Concat(Tail(ss))

(***************************************************************************)
(* REGEXP = \{generate_api_arguments_table\|\s*(.+?)\s*\|\s*(.+)\s*\}      *)
(* with the backtracking order of Python's re: greedy quantifiers try the  *)
(* longest run first, the lazy group 1 the shortest first.                 *)
(***************************************************************************)
IsSpace(c) == c \in {SP, NL}
IsDot(c) == c # NL

\* \s* taken greedily from position i: the first position that holds no white space
SkipWs(w, i) == Min({k \in i..(Len(w) + 1) : k = Len(w) + 1 \/ ~IsSpace(w[k])})

\* \} at position r
CloseIf(w, r) == IF r <= Len(w) /\ w[r] = "}" THEN r ELSE 0

\* \s*\} from position i: the position of the closing brace, 0 if there is none
CloseAt(w, i) == CloseIf(w, SkipWs(w, i))

\* (.+)\s*\} with group 2 starting at p: the positions group 2 may end at
G2Ends(w, p) ==
    {q \in p..Len(w) : (\A i \in p..q : IsDot(w[i])) /\ CloseAt(w, q + 1) # 0}

\* \s*(.+)\s*\} after the separator at b: the starts of group 2 that succeed
G2Starts(w, b) == {p \in (b + 1)..SkipWs(w, b + 1) : G2Ends(w, p) # {}}

\* \|\s*(.+)\s*\} at position b
SepAt(w, b) == b <= Len(w) /\ w[b] = "|" /\ G2Starts(w, b) # {}

\* (.+?)\s*\|... with group 1 starting at a: the positions group 1 may end at
G1Ends(w, a) ==
    {e \in a..Len(w) : (\A i \in a..e : IsDot(w[i])) /\ SepAt(w, SkipWs(w, e + 1))}

\* the literal \{generate_api_arguments_table\| at s, then \s*: the starts of group 1
G1Starts(w, s) ==
    IF s + 2 <= Len(w) /\ w[s] = "{" /\ w[s + 1] = G /\ w[s + 2] = "|"
    THEN {a \in (s + 3)..SkipWs(w, s + 3) : G1Ends(w, a) # {}}
    ELSE {}

NoMatch == [start |-> 0, end |-> 0, g1 |-> <<>>, g2 |-> <<>>]

\* the match that begins at s, one choice of the backtracking at a time: the
\* longest \s*, the shortest group 1, the longest \s*, the longest group 2
MatchG2(w, s, a, e, p, q) ==
    [start |-> s, end |-> CloseAt(w, q + 1), g1 |-> SubSeq(w, a, e), g2 |-> SubSeq(w, p, q)]
MatchSep(w, s, a, e, p) == MatchG2(w, s, a, e, p, Max(G2Ends(w, p)))
MatchG1(w, s, a, e) == MatchSep(w, s, a, e, Max(G2Starts(w, SkipWs(w, e + 1))))
MatchLit(w, s, a) == MatchG1(w, s, a, Min(G1Ends(w, a)))
MatchAt(w, s) == MatchLit(w, s, Max(G1Starts(w, s)))

\* the leftmost of the starts S
Leftmost(w, S) == IF S = {} THEN NoMatch ELSE MatchAt(w, Min(S))

\* REGEXP.search(w) from position from: the leftmost match, NoMatch if none
SearchFrom(w, from) == Leftmost(w, {s \in from..Len(w) : G1Starts(w, s) # {}})

Search(w) == SearchFrom(w, 1)

\* a search for the opening of a directive alone
MatchesOpen(w) ==
    \E s \in 1..Len(w) : s + 2 <= Len(w) /\ w[s] = "{" /\ w[s + 1] = G /\ w[s + 2] = "|"

Matches(w) == \E s \in 1..Len(w) : G1Starts(w, s) # {}

\* REGEXP.split(w, maxsplit=0): the text around every match, the two groups of
\* each match between them
RECURSIVE SplitFrom(_, _)
SplitAt(w, from, m) ==
    IF m.start = 0 THEN <<SubSeq(w, from, Len(w))>>
    ELSE <<SubSeq(w, from, m.start - 1), m.g1, m.g2>> \o SplitFrom(w, m.end + 1)
SplitFrom(w, from) == SplitAt(w, from, SearchFrom(w, from))

Split(w) == SplitFrom(w, 1)

\* REGEXP.sub('', w): every match removed
RECURSIVE SubFrom(_, _)
SubAt(w, from, m) ==
    IF m.start = 0 THEN SubSeq(w, from, Len(w))
    ELSE SubSeq(w, from, m.start - 1) \o SubFrom(w, m.end + 1)
SubFrom(w, from) == SubAt(w, from, SearchFrom(w, from))

Sub(w) == SubFrom(w, 1)

(***************************************************************************)
(* Paths (os.path).  A path is a text whose components are separated by    *)
(* the token "/".                                                          *)
(***************************************************************************)
base_path == <<"/", "docs">>
Home == <<"/", "home">>

\* os.path.expanduser: a leading "~" alone or before "/" becomes the home
\* directory; "~name" of an unknown user is left as it is
ExpandUser(path) ==
    IF Len(path) >= 1 /\ path[1] = "~" /\ (Len(path) = 1 \/ path[2] = "/")
    THEN Home \o SubSeq(path, 2, Len(path))
    ELSE path

IsAbs(path) == Len(path) >= 1 /\ path[1] = "/"

EndsWithYaml(path) == Len(path) >= 1 /\ path[Len(path)] \in {"api.yaml", "zulip.yaml"}

Join(dir, path) ==
    IF IsAbs(path) THEN path
    ELSE IF dir = <<>> \/ dir[Len(dir)] = "/" THEN dir \o path
    ELSE dir \o <<"/">> \o path

\* the components of a path, the empty ones included
RECURSIVE Components(_)
CutAt(path, S) ==
    IF S = {} THEN <<path>>
    ELSE <<SubSeq(path, 1, Min(S) - 1)>> \o Components(SubSeq(path, Min(S) + 1, Len(path)))
Components(path) == CutAt(path, {i \in 1..Len(path) : path[i] = "/"})

\* os.path.normpath's loop over the components: "" and "." are dropped, ".."
\* removes the component before it (at the root it is dropped)
Keep(c, acc, abs) ==
    IF c = <<>> \/ c = <<".">> THEN acc
    ELSE IF c # <<"..">> THEN Append(acc, c)
    ELSE IF acc # <<>> /\ acc[Len(acc)] # <<"..">> THEN SubSeq(acc, 1, Len(acc) - 1)
    ELSE IF abs THEN acc
    ELSE Append(acc, c)

RECURSIVE Collapse(_, _, _)
Collapse(comps, acc, abs) ==
    IF comps = <<>> THEN acc ELSE Collapse(Tail(comps), Keep(Head(comps), acc, abs), abs)

RECURSIVE JoinComps(_)
JoinComps(cs) ==
    IF cs = <<>> THEN <<>>
    ELSE IF Len(cs) = 1 THEN cs[1]
    ELSE cs[1] \o <<"/">> \o JoinComps(Tail(cs))

Rooted(path, body) ==
    IF IsAbs(path) THEN <<"/">> \o body
    ELSE IF body = <<>> THEN <<".">> ELSE body

NormPath(path) == Rooted(path, JoinComps(Collapse(Components(path), <<>>, IsAbs(path))))

\* lines 49-51 of run: a file name that is not absolute is taken from base_path
ResolvePath(filename) ==
    IF IsAbs(filename) THEN filename ELSE NormPath(Join(base_path, filename))

(***************************************************************************)
(* Argument records.  A Python dict is a record with the set `has` of the  *)
(* keys it holds; the value of a key it does not hold is never read.       *)
(* schema.enum is held when `has` holds both "schema" and "enum".          *)
(***************************************************************************)
Rec(has, argument, name, example, required, description, enum) ==
    [has |-> has, argument |-> argument, name |-> name, example |-> example,
     required |-> required, description |-> description, enum |-> enum]

Directive(source, key) == <<"{", G, "|">> \o source \o <<"|">> \o key \o <<"}">>

RecEmail ==
    Rec({"argument", "example", "required", "description"},
        <<"email">>, <<>>, <<"a@b.com">>, TRUE, <<"User", SP, "email">>, <<>>)
RecOp ==
    Rec({"name", "example", "description", "schema", "enum"},
        <<>>, <<"op">>, <<"add">>, FALSE, <<"The", SP, BQ, "op", BQ, SP, "to", SP, "run">>,
        <<<<"add">>, <<"remove">>>>)
RecFlag ==
    Rec({"name", "example", "required", "description", "schema"},
        <<>>, <<"flag">>, <<"read">>, FALSE, <<"A", SP, "flag">>, <<>>)
RecAnon ==
    Rec({"example", "required", "description", "schema", "enum"},
        <<>>, <<>>, <<"1">>, TRUE, <<"Anonymous">>, <<<<"1">>>>)
RecNoDescription ==
    Rec({"argument", "example", "required"},
        <<"stream">>, <<>>, <<"Denmark">>, TRUE, <<>>, <<>>)
RecNoExample ==
    Rec({"name", "description"},
        <<>>, <<"topic">>, <<>>, FALSE, <<"Topic">>, <<>>)
\* records whose fields hold directive text
RecAgain ==
    Rec({"argument", "example", "description"},
        <<"again">>, <<>>, <<"x">>, FALSE,
        <<"see", SP>> \o Directive(<<"loop.json">>, <<"again">>), <<>>)
RecTwice ==
    Rec({"argument", "example", "description"},
        Directive(<<"loop.json">>, <<"twice">>), <<>>, <<"x">>, FALSE,
        <<"see", SP>> \o Directive(<<"loop.json">>, <<"twice">>) \o <<SP, "too">>, <<>>)
RecFailFirst ==
    Rec({"argument", "example", "description"},
        Directive(<<"missing.json">>, <<"create_user">>), <<>>, <<"x">>, FALSE,
        Directive(<<"params.json">>, <<"create_user">>), <<>>)

(***************************************************************************)
(* The documents on disk and the API description.                          *)
(***************************************************************************)
Ok(v) == [err |-> "", val |-> v]
Err(e) == [err |-> e, val |-> <<>>]

ParamsJson ==
    (<<"create_user">> :> <<RecEmail>>) @@
    (<<"none">> :> <<>>) @@
    (<<"broken">> :> <<RecEmail, RecNoDescription>>) @@
    (<<"noexample">> :> <<RecNoExample, RecEmail>>)

LoopJson ==
    (<<"again">> :> <<RecAgain>>) @@
    (<<"twice">> :> <<RecTwice>>) @@
    (<<"failfirst">> :> <<RecFailFirst>>)

\* open(filename) and ujson.load(fp), lines 58-59
LoadJson(filename) ==
    IF filename = <<"/", "docs", "/", "params.json">> THEN Ok(ParamsJson)
    ELSE IF filename = <<"/", "docs", "/", "loop.json">> THEN Ok(LoopJson)
    ELSE IF filename = <<"/", "docs", "/", "bad.json">> THEN Err("ParseError")
    ELSE Err("SourceNotFound")

OpenApiPaths ==
    (<< <<"/users">>, <<"get">> >> :> <<RecOp, RecFlag>>) @@
    (<< <<"/users">>, <<"post">> >> :> <<RecEmail>>)

\* zerver.lib.openapi.get_openapi_parameters
get_openapi_parameters(endpoint, method) ==
    IF <<endpoint, method>> \in DOMAIN OpenApiPaths
    THEN Ok(OpenApiPaths[<<endpoint, method>>])
    ELSE Err("KeyNotFound")

\* doc_name.rsplit(':', 1): the text before and after the last colon
HasColon(doc_name) == \E i \in 1..Len(doc_name) : doc_name[i] = ":"
LastColon(doc_name) == Max({i \in 1..Len(doc_name) : doc_name[i] = ":"})
Endpoint(doc_name) == SubSeq(doc_name, 1, LastColon(doc_name) - 1)
Method(doc_name) == SubSeq(doc_name, LastColon(doc_name) + 1, Len(doc_name))

\* json_obj[doc_name], line 60
Lookup(json_obj, doc_name) ==
    IF json_obj.err # "" THEN Err(json_obj.err)
    ELSE IF doc_name \in DOMAIN json_obj.val THEN Ok(json_obj.val[doc_name])
    ELSE Err("KeyNotFound")

\* lines 54-60 of run: the argument list of a directive, or the error raised
Resolve(is_openapi_format, filename, doc_name) ==
    IF is_openapi_format THEN
        IF ~HasColon(doc_name) THEN Err("ResolverError")
        ELSE get_openapi_parameters(Endpoint(doc_name), Method(doc_name))
    ELSE Lookup(LoadJson(filename), doc_name)

(***************************************************************************)
(* markdown.Markdown(extensions=[]).convert on a text of one paragraph:    *)
(* the text between two backquotes becomes a <code> element, and the       *)
(* paragraph is wrapped in <p>...</p>.  Braces, bars, colons and line      *)
(* breaks inside the paragraph are kept.  The empty text converts to the   *)
(* empty text.                                                             *)
(***************************************************************************)
RECURSIVE CodeSpans(_)
CodeSpan(d, i, j) ==
    SubSeq(d, 1, i - 1) \o <<"<code>">> \o SubSeq(d, i + 1, j - 1)
        \o <<"</code>">> \o CodeSpans(SubSeq(d, j + 1, Len(d)))
CodeSpansAt(d, S) ==
    IF Cardinality(S) < 2 THEN d ELSE CodeSpan(d, Min(S), Min(S \ {Min(S)}))
CodeSpans(d) == CodeSpansAt(d, {i \in 1..Len(d) : d[i] = BQ})

Convert(d) == IF d = <<>> THEN <<>> ELSE <<"<p>">> \o CodeSpans(d) \o <<"</p>">>

(***************************************************************************)
(* render_table                                                            *)
(***************************************************************************)
beginning ==
    <<NL, "<table class=\"table\">", NL,
      SP, SP, "<thead>", NL,
      SP, SP, SP, SP, "<tr>", NL,
      SP, SP, SP, SP, SP, SP, "<th>Argument</th>", NL,
      SP, SP, SP, SP, SP, SP, "<th>Example</th>", NL,
      SP, SP, SP, SP, SP, SP, "<th>Required</th>", NL,
      SP, SP, SP, SP, SP, SP, "<th>Description</th>", NL,
      SP, SP, SP, SP, "</tr>", NL,
      SP, SP, "</thead>", NL,
      "<tbody>", NL>>

\* tr.format(argument=..., example=..., required=..., description=...)
tr(argument, example, required, description) ==
    <<NL, "<tr>", NL, SP, SP, "<td><code>">> \o argument \o <<"</code></td>", NL,
      SP, SP, "<td><code>">> \o example \o <<"</code></td>", NL,
      SP, SP, "<td>">> \o required \o <<"</td>", NL,
      SP, SP, "<td>">> \o description \o <<"</td>", NL, "</tr>", NL>>

\* ', '.join(items)
RECURSIVE JoinComma(_)
JoinComma(items) ==
    IF items = <<>> THEN <<>>
    ELSE IF Len(items) = 1 THEN items[1]
    ELSE items[1] \o <<",", SP>> \o JoinComma(Tail(items))

\* argument.get('schema', {}).get('enum', []), each item between backquotes
Enum(argument) ==
    IF {"schema", "enum"} \subseteq argument.has THEN argument.enum ELSE <<>>
\* the values without the backquotes around them
OneOfBare(argument) == [k \in 1..Len(Enum(argument)) |-> Enum(argument)[k]]
OneOf(argument) == [k \in 1..Len(Enum(argument)) |-> <<BQ>> \o Enum(argument)[k] \o <<BQ>>]

\* description += '\nMust be one of: {}.'.format(', '.join(oneof))
WithEnum(description, oneof) ==
    description \o <<NL, "Must be one of:", SP>> \o JoinComma(oneof) \o <<".">>

\* the description handed to md_engine.convert (lines 113-117)
Description(argument) ==
    IF OneOf(argument) # <<>>
    THEN WithEnum(argument.description, OneOf(argument))
    ELSE argument.description

\* argument.get('argument') or argument.get('name'); None is formatted "None"
ArgumentName(argument) ==
    IF "argument" \in argument.has /\ argument.argument # <<>> THEN argument.argument
    ELSE IF "name" \in argument.has THEN argument.name
    ELSE <<"None">>

Required(argument) ==
    IF "required" \in argument.has /\ argument.required THEN <<"Yes">> ELSE <<"No">>

\* one pass of the loop of lines 112-126: the row of a record
Row(argument) ==
    tr(ArgumentName(argument), argument.example, Required(argument),
       Convert(Description(argument)))

\* argument['description'] and argument['example'] raise KeyError when absent
WellFormed(argument) == {"description", "example"} \subseteq argument.has

\* the rows in the reverse of the order of the records
RowsReversed(args) == [k \in 1..Len(args) |-> Row(args[Len(args) + 1 - k])]

\* the rows of the records, in the order of the loop
Rows(args) == [k \in 1..Len(args) |-> Row(args[k])]

render_table(args) ==
    IF \E k \in 1..Len(args) : ~WellFormed(args[k]) THEN Err("MalformedRecord")
    ELSE Ok(<<beginning>> \o Rows(args) \o <<<<"</tbody>">>, <<"</table>">>>>)

(***************************************************************************)
(* The documents handed to run.  markdown hands a preprocessor the source  *)
(* split at its line breaks, so a line of the input holds no NL; a line    *)
(* that holds one is a line of a rendered table.                           *)
(***************************************************************************)
Tight(source, key) == Directive(source, key)
Spaced(source, key) ==
    <<"{", G, "|", SP>> \o source \o <<SP, "|", SP>> \o key \o <<SP, "}">>

Catalog ==
    { <<>>,
      <<"plain", SP, "text">>,
      <<"{", G, "|", "params.json", "}">>,
      <<"Intro", SP>> \o Spaced(<<"params.json">>, <<"create_user">>) \o <<SP, "Outro">>,
      <<"Intro", SP>> \o Tight(<<"params.json">>, <<"create_user">>) \o <<SP, "Outro">>,
      Tight(<<".", "/", "sub", "/", "..", "/", "params.json">>, <<"none">>),
      Tight(<<"~", "/", "params.json">>, <<"create_user">>) \o <<SP, "after">>,
      <<"before">> \o Tight(<<"bad.json">>, <<"create_user">>),
      Tight(<<"params.json">>, <<"broken">>),
      Tight(<<"params.json">>, <<"noexample">>),
      Tight(<<"api.yaml">>, <<"/users", ":", "get">>),
      Spaced(<<"api.yaml">>, <<"/users", ":", "get">>),
      Tight(<<"api.yaml">>, <<"/users">>),
      Tight(<<"api.yaml">>, <<"/nope", ":", "get">>),
      Tight(<<"params.json">>, <<"create_user">>) \o <<SP, "and", SP>>
          \o Tight(<<"params.json">>, <<"none">>) \o <<SP, "end">>,
      Tight(<<"loop.json">>, <<"again">>),
      Tight(<<"loop.json">>, <<"twice">>),
      <<"a", SP>> \o Tight(<<"loop.json">>, <<"failfirst">>) }

Docs == UNION {[1..n -> Catalog] : n \in 0..MaxLines}

(***************************************************************************)
(* run                                                                     *)
(***************************************************************************)
NoStep == [kind |-> "none", loc |-> 0, before |-> <<>>]

\* the for loop of line 38: the position of the first line that matches, 0 if none
FirstOf(S) == IF S = {} THEN 0 ELSE Min(S)
FirstMatching(ls) == FirstOf({j \in 1..Len(ls) : Matches(ls[j])})

\* the last position that holds a line equal to line
ListIndexLast(ls, line) == Max({k \in 1..Len(ls) : ls[k] = line})

\* lines.index(line): the first position that holds a line equal to line
ListIndex(ls, line) == Min({k \in 1..Len(ls) : ls[k] = line})

\* lines 43-51: what a match asks for
RequestOf(source, doc_name, filename) ==
    [source |-> source, doc_name |-> doc_name,
     is_openapi_format |-> EndsWithYaml(filename),
     filename |-> ResolvePath(filename),
     endpoint |-> IF EndsWithYaml(filename) /\ HasColon(doc_name)
                  THEN Endpoint(doc_name) ELSE <<>>,
     method |-> IF EndsWithYaml(filename) /\ HasColon(doc_name)
                THEN Method(doc_name) ELSE <<>>]
RequestIn(match) == RequestOf(match.g1, match.g2, ExpandUser(match.g1))
Request(line) == RequestIn(Search(line))

\* line 62: the table of the arguments found, or the error raised on the way
Render(found, rendered) ==
    IF found.err # "" THEN [err |-> found.err, args |-> <<>>, text |-> <<>>]
    ELSE [err |-> rendered.err, args |-> found.val, text |-> rendered.val]
Rendered(found) == Render(found, render_table(found.val))

\* lines 53-62: the body of the try statement
Attempt(rq) == Rendered(Resolve(rq.is_openapi_format, rq.filename, rq.doc_name))

\* the slice lines[loc:] in place of lines[loc+1:]
SpliceKeepsLine(ls, loc, line_split, table) ==
    SubSeq(ls, 1, loc - 1)
        \o (<<line_split[1]>> \o table \o <<line_split[Len(line_split)]>>)
        \o SubSeq(ls, loc, Len(ls))

\* lines 75-79: the line at loc replaced by the text around its matches and the table
SpliceSplit(ls, loc, line_split, table) ==
    SubSeq(ls, 1, loc - 1)
        \o (<<line_split[1]>> \o table \o <<line_split[Len(line_split)]>>)
        \o SubSeq(ls, loc + 1, Len(ls))
Splice(ls, loc, line, table) == SpliceSplit(ls, loc, Split(line), table)

\* the assignment of line 68 without the substitution
BlankKeeps(ls, loc, line) == ls

\* line 68: the line at loc with its matches removed
Blank(ls, loc, line) == [ls EXCEPT ![loc] = Sub(line)]

\* a rendered table that brings back a directive resolving to the same arguments
SameArguments(got, args) == got.err = "" /\ got.args = args
BringsBack(args, table) ==
    \E k \in 1..Len(table) :
        Matches(table[k]) /\ SameArguments(Attempt(Request(table[k])), args)

HoldsDirective(table) == \E k \in 1..Len(table) : Matches(table[k])

Init ==
    /\ input \in Docs
    /\ lines = input
    /\ pc = "scan"
    /\ attempts = <<>>
    /\ diags = <<>>
    /\ last = NoStep
    /\ iter = 0
    /\ reintro = FALSE
    /\ selfloop = FALSE
    /\ arguments = <<>>
    /\ text = <<>>
    /\ raised = ""

\* an outer iteration may start.  run has no iteration limit; the model stops after
\* MaxLines + MaxIter iterations, which only a run that re-introduces directives reaches
MayStep == pc = "scan" /\ iter < MaxLines + MaxIter

\* a loop that gives up after two iterations
ReturnAtLimit ==
    /\ MayStep
    /\ (FirstMatching(lines) = 0 \/ iter >= 2)
    /\ pc' = "done"
    /\ last' = [kind |-> "return", loc |-> 0, before |-> lines]
    /\ iter' = iter + 1
    /\ UNCHANGED <<lines, input, attempts, diags, reintro, selfloop, arguments, text, raised>>

\* an outer iteration whose first matching line resolves: lines 38-62, 75-80
SpliceTable ==
    /\ MayStep
    /\ \E j \in {FirstMatching(lines)} :
         /\ j # 0
         /\ \E loc \in {ListIndex(lines, lines[j])}, rq \in {Request(lines[j])} :
              \E got \in {Attempt(rq)} :
                 /\ got.err = ""
                 /\ lines' = Splice(lines, loc, lines[j], got.text)
                 /\ attempts' = Append(attempts, rq)
                 /\ last' = [kind |-> "splice", loc |-> loc, before |-> lines]
                 /\ arguments' = got.args
                 /\ text' = got.text
                 /\ reintro' = (reintro \/ HoldsDirective(got.text))
                 /\ selfloop' = (selfloop \/ BringsBack(got.args, got.text))
                 /\ raised' = ""
    /\ iter' = iter + 1
    /\ UNCHANGED <<pc, input, diags>>

\* an outer iteration whose first matching line fails to resolve: lines 38-69
BlankDirective ==
    /\ MayStep
    /\ \E j \in {FirstMatching(lines)} :
         /\ j # 0
         /\ \E loc \in {ListIndex(lines, lines[j])}, rq \in {Request(lines[j])} :
              \E got \in {Attempt(rq)} :
                 /\ got.err # ""
                 /\ lines' = Blank(lines, loc, lines[j])
                 /\ attempts' = Append(attempts, rq)
                 /\ diags' = Append(diags, [filename |-> rq.filename, error |-> got.err])
                 /\ last' = [kind |-> "blank", loc |-> loc, before |-> lines]
                 /\ raised' = got.err
    /\ iter' = iter + 1
    /\ UNCHANGED <<pc, input, reintro, selfloop, arguments, text>>

\* the for loop ends without a match: lines 81-83
Return ==
    /\ MayStep
    /\ FirstMatching(lines) = 0
    /\ pc' = "done"
    /\ last' = [kind |-> "return", loc |-> 0, before |-> lines]
    /\ iter' = iter + 1
    /\ UNCHANGED <<lines, input, attempts, diags, reintro, selfloop, arguments, text, raised>>

\* run is called again, on the lines it returned
RunAgain ==
    /\ pc = "done"
    /\ input' = lines
    /\ pc' = "scan"
    /\ attempts' = <<>>
    /\ diags' = <<>>
    /\ last' = NoStep
    /\ iter' = 0
    /\ reintro' = FALSE
    /\ selfloop' = FALSE
    /\ arguments' = <<>>
    /\ text' = <<>>
    /\ raised' = ""
    /\ UNCHANGED lines

Next == SpliceTable \/ BlankDirective \/ Return \/ RunAgain

Spec == Init /\ [][Next]_vars

\* An outer iteration, whatever its kind: SpliceTable, BlankDirective and Return
\* all start under MayStep and add one to iter, one of them can start whenever
\* MayStep holds, and RunAgain sets iter to 0.
Iterate == MayStep /\ iter' = iter + 1

\* run is a sequential loop: an iteration that can start does start
FairSpec == Spec /\ WF_iter(Iterate)

(***************************************************************************)
(* render_table on its own, for every argument list of up to MaxArgs       *)
(* records.                                                                *)
(***************************************************************************)
RecOdd ==
    Rec({"name", "example", "description", "schema", "enum"},
        <<>>, <<"mode">>, <<"x">>, FALSE, <<"one", SP, BQ, "tick">>, <<<<"x">>>>)
RecEmptyEnum ==
    Rec({"argument", "name", "example", "required", "description", "schema", "enum"},
        <<>>, <<"narrow">>, <<"[]">>, FALSE, <<"A", SP, BQ, "narrow", BQ>>, <<>>)

Records ==
    {RecEmail, RecOp, RecFlag, RecAnon, RecOdd, RecEmptyEnum, RecAgain,
     RecNoDescription, RecNoExample}

ArgLists == UNION {[1..n -> Records] : n \in 0..MaxArgs}

InitRender ==
    /\ arguments \in ArgLists
    /\ pc = "render"
    /\ text = <<>>
    /\ raised = ""
    /\ lines = <<>>
    /\ input = <<>>
    /\ attempts = <<>>
    /\ diags = <<>>
    /\ last = NoStep
    /\ iter = 0
    /\ reintro = FALSE
    /\ selfloop = FALSE

\* text = self.render_table(arguments)
RenderTable ==
    /\ pc = "render"
    /\ pc' = "rendered"
    /\ \E rendered \in {render_table(arguments)} :
         /\ text' = rendered.val
         /\ raised' = rendered.err
    /\ UNCHANGED <<lines, input, attempts, diags, last, iter, reintro, selfloop, arguments>>

NextRender == RenderTable

SpecRender == InitRender /\ [][NextRender]_vars

(***************************************************************************)
(* What the claims speak of.                                               *)
(***************************************************************************)
\* The pattern, read as a grammar rather than as a search: the literal at s, white
\* space, a group 1 without line break, white space, "|" at b, white space, a
\* group 2 without line break, white space, "}" at r.
Spaces(w, i, j) == \A k \in i..j : IsSpace(w[k])
Dots(w, i, j) == \A k \in i..j : IsDot(w[k])
Padded(w, i, j) == \E a \in i..j : \E e \in a..j : Spaces(w, i, a - 1) /\ Dots(w, a, e) /\ Spaces(w, e + 1, j)
HoldsPattern(w) ==
    \E s \in 1..Len(w) :
        /\ s + 2 <= Len(w) /\ w[s] = "{" /\ w[s + 1] = G /\ w[s + 2] = "|"
        /\ \E b \in (s + 4)..Len(w) :
              /\ w[b] = "|"
              /\ Padded(w, s + 3, b - 1)
              /\ \E r \in (b + 2)..Len(w) : w[r] = "}" /\ Padded(w, b + 1, r - 1)

DirectiveLines(ls) == {j \in 1..Len(ls) : HoldsPattern(ls[j])}

Trimmed(t) == t = <<>> \/ (~IsSpace(t[1]) /\ ~IsSpace(t[Len(t)]))

Processed == last.kind \in {"splice", "blank"}

\* the line the last iteration worked on, and the text before and after its first match
TheLine == last.before[last.loc]
TextBefore == SubSeq(TheLine, 1, Search(TheLine).start - 1)
TextAfter == SubSeq(TheLine, Search(TheLine).end + 1, Len(TheLine))
LinesBefore == SubSeq(last.before, 1, last.loc - 1)
LinesAfter == SubSeq(last.before, last.loc + 1, Len(last.before))

\* the cells of a rendered row
Places(row, tok) == {i \in 1..Len(row) : row[i] = tok}
Between(row, i, j) == SubSeq(row, i + 1, j - 1)
NameCell(row) == Between(row, Min(Places(row, "<td><code>")), Min(Places(row, "</code></td>")))
ExampleCell(row) == Between(row, Max(Places(row, "<td><code>")), Max(Places(row, "</code></td>")))
RequiredCell(row) == Between(row, Min(Places(row, "<td>")), Min(Places(row, "</td>")))
DescriptionCell(row) == Between(row, Max(Places(row, "<td>")), Max(Places(row, "</td>")))

IsTh(tok) == tok \in {"<th>Argument</th>", "<th>Example</th>", "<th>Required</th>", "<th>Description</th>"}

EnumOf(rec) == IF {"schema", "enum"} \subseteq rec.has THEN rec.enum ELSE <<>>
Ticked(values) == [k \in 1..Len(values) |-> <<BQ>> \o values[k] \o <<BQ>>]
Coded(values) == [k \in 1..Len(values) |-> <<"<code>">> \o values[k] \o <<"</code>">>]
Sentence(items) == <<"Must be one of:", SP>> \o JoinComma(items) \o <<".">>

(***************************************************************************)
(* C1.  A splice replaces the matched line by the text before the match,   *)
(* the table, and the text after the match; the other lines stay, and the  *)
(* line now at the position does not match.                                *)
(***************************************************************************)
C1_SpliceKeepsTextAroundTheMatch ==
    last.kind = "splice" =>
        /\ lines = LinesBefore \o <<TextBefore>> \o text \o <<TextAfter>> \o LinesAfter
        /\ ~HoldsPattern(lines[last.loc])

(***************************************************************************)
(* C2.  A failure of any kind prints a warning and leaves, in place of the *)
(* line, the text before the directive joined to the text after it; the    *)
(* number of lines stays and no table line is inserted.                    *)
(***************************************************************************)
C2_FailureRemovesOnlyTheDirective ==
    last.kind = "blank" =>
        /\ raised # ""
        /\ diags # <<>> /\ diags[Len(diags)].error = raised
        /\ Len(lines) = Len(last.before)
        /\ lines = LinesBefore \o <<TextBefore \o TextAfter>> \o LinesAfter

(***************************************************************************)
(* C3.  The source and the key a directive is resolved with carry no       *)
(* leading and no trailing white space (nor does the method handed to the  *)
(* resolver).                                                              *)
(***************************************************************************)
C3_CapturedFieldsAreTrimmed ==
    \A k \in 1..Len(attempts) :
        /\ Trimmed(attempts[k].source)
        /\ Trimmed(attempts[k].doc_name)
        /\ Trimmed(attempts[k].endpoint)
        /\ Trimmed(attempts[k].method)

(***************************************************************************)
(* C4.  When no line of the input matches the pattern, run returns the     *)
(* input after one scan, resolves nothing and prints nothing; so a second  *)
(* run on the lines a run returned changes nothing.                        *)
(***************************************************************************)
C4_NoDirectiveIsIdentity ==
    (pc \in {"scan", "done"} /\ DirectiveLines(input) = {}) =>
        /\ lines = input
        /\ attempts = <<>>
        /\ diags = <<>>
        /\ iter <= 1
        /\ (iter = 1 => pc = "done")

C4_Witness ==
    /\ pc = "done"
    /\ DirectiveLines(input) = {}
    /\ \E k \in 1..Len(input) : input[k] = beginning
    /\ lines = input

(***************************************************************************)
(* C5.  A run whose tables hold no directive text ends, whatever the       *)
(* outcomes of its directives, and no line it returns matches the pattern. *)
(***************************************************************************)
C5_RunEndsWithoutDirectives ==
    /\ [](pc = "done" => DirectiveLines(lines) = {})
    /\ ((pc = "scan" /\ ~reintro) ~> (pc = "done" \/ reintro))

C5_Witness ==
    /\ pc = "done"
    /\ ~reintro
    /\ DirectiveLines(input) # {}
    /\ diags # <<>>
    /\ Len(attempts) > Len(diags)

(***************************************************************************)
(* C6.  In a run whose tables hold no directive text, the lines that       *)
(* replace a processed directive do not match, and there are as many       *)
(* attempts as lines of the input that hold a directive: none is retried.  *)
(***************************************************************************)
C6_EachDirectiveAttemptedOnce ==
    (pc \in {"scan", "done"} /\ ~reintro) =>
        /\ Len(attempts) <= Cardinality(DirectiveLines(input))
        /\ (pc = "done" => Len(attempts) = Cardinality(DirectiveLines(input)))
        /\ (last.kind = "blank" => ~HoldsPattern(lines[last.loc]))
        /\ (last.kind = "splice" =>
                /\ ~HoldsPattern(lines[last.loc])
                /\ ~HoldsPattern(lines[last.loc + Len(text) + 1]))

C6_Witness ==
    /\ pc = "done"
    /\ ~reintro
    /\ Len(attempts) = 2
    /\ Len(diags) = 1
    /\ last.before # input

(***************************************************************************)
(* C7.  render_table returns the fixed header, then one row for each       *)
(* record, the k-th row made from the k-th record, then the fixed footer.  *)
(***************************************************************************)
C7_OneRowPerRecordInOrder ==
    (pc = "rendered" /\ \A k \in 1..Len(arguments) : WellFormed(arguments[k])) =>
        /\ raised = ""
        /\ Len(text) = Len(arguments) + 3
        /\ text[1] = beginning
        /\ SelectSeq(text[1], IsTh) =
              <<"<th>Argument</th>", "<th>Example</th>", "<th>Required</th>", "<th>Description</th>">>
        /\ text[Len(arguments) + 2] = <<"</tbody>">>
        /\ text[Len(arguments) + 3] = <<"</table>">>
        /\ \A k \in 1..Len(arguments) :
              /\ NameCell(text[k + 1]) =
                    (IF "argument" \in arguments[k].has /\ arguments[k].argument # <<>>
                     THEN arguments[k].argument
                     ELSE IF "name" \in arguments[k].has THEN arguments[k].name
                     ELSE <<"None">>)
              /\ ExampleCell(text[k + 1]) = arguments[k].example
              /\ RequiredCell(text[k + 1]) =
                    (IF "required" \in arguments[k].has /\ arguments[k].required
                     THEN <<"Yes">> ELSE <<"No">>)
              /\ \A i \in 1..Len(arguments[k].description) :
                    arguments[k].description[i] \notin {BQ}
                        => arguments[k].description[i] \in
                              {DescriptionCell(text[k + 1])[j] : j \in 1..Len(DescriptionCell(text[k + 1]))}

C7_Witness ==
    /\ pc = "rendered"
    /\ raised = ""
    /\ Len(arguments) = 2
    /\ arguments[1] = arguments[2]
    /\ Len(text) = 5

C9_ReintroducedDirectiveNeverReturns ==
    selfloop => (pc = "scan" /\ DirectiveLines(lines) # {})

C9_Witness == selfloop /\ iter >= 3 /\ Len(attempts) >= 3

(***************************************************************************)
(* C10.  The position lines.index gives for the processed line is the      *)
(* smallest position of a matching line, and the change is made there:     *)
(* the lines before and after it are those of before.                      *)
(***************************************************************************)
C10_IndexIsFirstMatchingLine ==
    Processed =>
        /\ last.loc = Min(DirectiveLines(last.before))
        /\ SubSeq(lines, 1, last.loc - 1) = LinesBefore
        /\ SubSeq(lines, Len(lines) - Len(LinesAfter) + 1, Len(lines)) = LinesAfter
        /\ lines[last.loc] # TheLine

C10_Witness ==
    /\ Processed
    /\ \E j \in (last.loc + 1)..Len(last.before) : last.before[j] = TheLine

====
